---- MODULE Spec2Model ----
(***************************************************************************)
(* Model of the aws_s3 source of vector (src/sources/aws_s3.rs): the       *)
(* construction of the SqsIngestor (SqsIngestor::new), its polling loop    *)
(* (SqsIngestor::run), the handling of one SQS message                     *)
(* (handle_sqs_message, handle_s3_event, handle_s3_event_record), the      *)
(* acknowledgement of a message by delete_message, the choice of the       *)
(* decoder of an object (s3_object_decoder, determine_compression) and the *)
(* (de)serialization of S3EventName.                                       *)
(*                                                                         *)
(* The SQS queue, the S3 service, the downstream pipeline and the shutdown *)
(* signal are the environment: every outcome they can produce is a         *)
(* nondeterministic choice of the action that models the await on them.    *)
(*                                                                         *)
(* A string the code takes apart is the sequence of its fragments, every   *)
(* separator (':', '.', '/', '\n') being a fragment of its own; a string   *)
(* the code only compares or copies is a TLA+ string.                      *)
(***************************************************************************)
EXTENDS Integers, Sequences, FiniteSets, TLC

\* ---------------------------------------------------------------- bounds
\* Number of messages S3 has put on the queue.
NumMsgs == 2
\* Largest number of notification records on the queue, over all messages.
MaxRecords == 2
\* Number of '\n'-delimited lines of the S3 object where its content is fixed.
NumLines == 2
\* Longest content of the S3 object, in bytes, where its content varies.
MaxBytes == 3
\* Longest eventName, in fragments.
MaxNameLen == 3

\* Largest number of lines of the S3 object where the lines are aggregated.
MaxAggLines == 3

\* Largest number of Nots around an operand.
MaxNots == 3

\* max_number_of_messages of the ReceiveMessageRequest
MaxNumberOfMessages == 10

MsgIds == 1..NumMsgs

\* Option::None, and Option::Some(x).
None == <<>>
Some(x) == <<x>>

\* The region the ingestor is configured with (self.region.name()) and a
\* foreign one.
OwnRegion == "us-east-1"
Regions == {OwnRegion, "eu-west-1"}

\* S3EventName.kind values: the one the source handles and another one.
Kinds == {"ObjectCreated", "ObjectRemoved"}

\* S3Bucket.name and S3Object.key of a notification record.
DefaultBucket == "logs"
DefaultKey == <<"out", ".", "log">>
Buckets == {DefaultBucket, "audit"}
Keys ==
    {DefaultKey,
     <<"out", ".", "log", ".", "gz">>,
     <<"out", ".", "zst">>,
     <<".", "gz">>,
     <<"gz">>,
     <<"logs", ".", "gz", "/", "out">>,
     <<"logs", "/", "out", ".", "gz", "/">>}

\* S3EventRecord: the fields handle_s3_event_record reads; bucket is
\* s3.bucket.name and key is s3.object.key.
S3EventRecord ==
    [kind : Kinds, aws_region : Regions, bucket : {DefaultBucket}, key : {DefaultKey}]

\* The same with every bucket and two of the keys.
AnyS3EventRecord ==
    [kind : Kinds, aws_region : Regions, bucket : Buckets,
     key : {DefaultKey, <<"out", ".", "log", ".", "gz">>}]

RECURSIVE SeqsUpTo(_, _)
SeqsUpTo(S, n) ==
    IF n = 0 THEN {<<>>}
    ELSE LET shorter == SeqsUpTo(S, n - 1)
         IN  shorter \cup {Append(s, x) : s \in {t \in shorter : Len(t) = n - 1}, x \in S}

\* Message.body: absent, a string that is no S3 notification, or the JSON of
\* an S3Event with its Records.
Bodies ==
    {[text |-> t, Records |-> <<>>] : t \in {"absent", "not json"}} \cup
    {[text |-> "S3Event", Records |-> r] : r \in SeqsUpTo(S3EventRecord, MaxRecords)}

\* A body that is present and empty.
EmptyBody == [text |-> "", Records |-> <<>>]

\* A record handle_s3_event_record would fetch the object of.
Fetchable ==
    [kind |-> "ObjectCreated", aws_region |-> OwnRegion,
     bucket |-> DefaultBucket, key |-> DefaultKey]

\* rusoto_sqs::Message: receipt_handle is nullable; a present handle is the
\* token SQS issued for that message. A message without a handle is given a
\* body that would be fetched if it were handled.
Message ==
    [receipt_handle : {TRUE}, body : Bodies] \cup
    {[receipt_handle |-> FALSE, body |-> [text |-> "S3Event", Records |-> <<Fetchable>>]]}

RECURSIVE TotalRecords(_, _)
TotalRecords(f, n) ==
    IF n = 0 THEN 0 ELSE Len(f[n].body.Records) + TotalRecords(f, n - 1)

\* The contents of the queue the model starts from.
Notifications == {f \in [MsgIds -> Message] : TotalRecords(f, NumMsgs) <= MaxRecords}

\* The receipt handle SQS hands out with message m.
HandleOf(m) == <<"rh", m>>

\* The bytes of an object: two letters and the delimiter.
Bytes == {"a", "b", "\n"}

\* GetObjectOutput.metadata: absent, or the user metadata of the object.
Metadatas ==
    {None,
     Some("owner" :> "ops"),
     Some(("owner" :> "ops") @@ ("team" :> "core")),
     Some("bucket" :> "spoofed"),
     Some("region" :> "eu-west-1"),
     Some(("object" :> <<"other", ".", "log">>) @@ ("owner" :> "ops"))}

\* GetObjectOutput.content_encoding and .content_type.
ContentEncodings == {None, Some("gzip"), Some("zstd"), Some("identity")}
ContentTypes ==
    {None, Some("application/gzip"), Some("application/x-gzip"),
     Some("application/zstd"), Some("text/plain")}

\* The std::io::Error a read of a body may end with, as its text.
IoErrors == {"unexpected end of file", "corrupt deflate stream"}

\* enum Compression
Compressions == {"Auto", "None", "Gzip", "Zstd"}

\* NumLines lines "a\n".
FixedBody == [i \in 1..(2 * NumLines) |-> IF i % 2 = 1 THEN "a" ELSE "\n"]

\* GetObjectOutput of the object where nothing of it varies: body is the
\* content as the decoder yields it, io_error the error that a read of this
\* body ends with when it does not reach the end.
DefaultObject ==
    [body |-> FixedBody, metadata |-> None,
     content_encoding |-> None, content_type |-> None,
     io_error |-> "unexpected end of file"]

\* u64 and i64 are four 16-bit limbs, the most significant first; an i64 is
\* in two's complement.
Limb == 2 ^ 16
SignBit == 2 ^ 15
U64(a, b, c, d) == <<a, b, c, d>>
I64Max == U64(SignBit - 1, Limb - 1, Limb - 1, Limb - 1)
IsNegative(i) == i[1] >= SignBit

\* default_visibility_timeout_secs
DefaultVisibilityTimeoutSecs == 300

\* Values of SqsConfig.visibility_timeout_secs.
VisibilityTimeouts ==
    {U64(0, 0, 0, 0),
     U64(0, 0, 0, DefaultVisibilityTimeoutSecs),
     U64(0, 1, 0, 0),
     I64Max,
     U64(SignBit, 0, 0, 0),
     U64(SignBit, 0, 0, 1),
     U64(Limb - 1, Limb - 1, Limb - 1, Limb - 1)}

\* default_poll_interval_secs
DefaultPollSecs == 15

\* Values of SqsConfig.poll_secs.
PollSecs == {0, 1, DefaultPollSecs}

\* What GetQueueUrl may answer: an error, or a GetQueueUrlResult whose
\* queue_url is nullable.
TheQueueUrl == "https://sqs/queue"
GetQueueUrlResults ==
    {[ok |-> FALSE, queue_url |-> None]} \cup
    {[ok |-> TRUE, queue_url |-> u] : u \in {None, Some(""), Some(TheQueueUrl)}}

\* SqsConfig, with the answer its queue_name gets from GetQueueUrl.
SqsConfigs ==
    [get_queue_url : GetQueueUrlResults,
     visibility_timeout_secs : VisibilityTimeouts,
     poll_secs : PollSecs]

DefaultSqsConfig ==
    [get_queue_url |-> [ok |-> TRUE, queue_url |-> Some(TheQueueUrl)],
     visibility_timeout_secs |-> U64(0, 0, 0, DefaultVisibilityTimeoutSecs),
     poll_secs |-> DefaultPollSecs]

\* line_agg::Mode
Modes == {"ContinueThrough", "ContinuePast", "HaltBefore", "HaltWith"}

\* The lines of an object that is aggregated, and the patterns: a pattern is
\* a literal, which matches every line that holds it.
AggLines == {<<"abc">>, <<"def">>, <<"geh">>}
Patterns == {"abc", "def"}

\* line_agg::Config, as built from the MultilineConfig; the timeout is a
\* duration the model has no clock for.
MultilineConfigs ==
    [start_pattern : Patterns, condition_pattern : Patterns, mode : Modes]

\* The fragments of an eventName, and the eventNames.
NameFragments == {"ObjectCreated", "ObjectRemoved", "Put", ":"}
EventNames == SeqsUpTo(NameFragments, MaxNameLen)

VARIABLES
    msgs,            \* the messages S3 notifications put on the queue
    queue,           \* ids of the messages still on the SQS queue
    delete_message,  \* SqsIngestor.delete_message
    store,           \* what GetObject returns for the object in S3
    compression,     \* SqsIngestor.compression
    multiline,       \* SqsIngestor.multiline
    sqs_config,      \* the SqsConfig given to SqsIngestor::new
    ingestor,        \* SqsIngestor::new's result, and the fields it sets
    shutdown,        \* the ShutdownSignal has been raised
    pc,              \* where new() or run() is suspended
    result,          \* what run() returned, "Running" before it returns
    messages,        \* the batch from the message the for loop is at
    ri,              \* index of the notification record being handled
    li,              \* lines of the current object already sent
    lines,           \* lines of handle_s3_event_record: what the framed
                     \* stream of the current object has still to yield
    read_error,      \* read_error of handle_s3_event_record
    decoder,         \* what s3_object_decoder chose for the current object
    buffer,          \* what the line aggregator of the current object holds
    sent,            \* events of the current object the pipeline accepted
    \* history of the current poll, for stating properties
    outcome,         \* result of handling each message of the batch
    error,           \* the last ProcessingError returned in this poll
    received,        \* how the receive of this poll ended
    deletes,         \* the calls of delete_message: message and receipt handle
    sinkFailed,      \* messages for which send_all returned an error
    inFlightAtShutdown, \* message in a GetObject or send_all when shutdown rose,
                     \* in this poll
    last,            \* the last request issued, and shutdown at that time
    delivered,       \* the pipeline accepted an event of the message the for
                     \* loop is at, or has just left
    timedOut,        \* the line aggregator flushed on its timeout, for the
                     \* current object
    \* serde of S3EventName
    eventName,       \* the eventName string of a notification record
    event_name,      \* the S3EventName deserialized from it
    serialized,      \* the string that S3EventName is serialized to
    \* remap-lang
    expression,      \* a Not expression: its innermost operand and its depth
    executed         \* what the operand and the Nots around it executed to

vars == <<msgs, queue, delete_message, store, compression, multiline, sqs_config,
          ingestor, shutdown, pc, result, messages, ri, li, lines,
          read_error, decoder, buffer, sent, outcome, error, received, deletes,
          sinkFailed, inFlightAtShutdown, last, delivered, timedOut,
          eventName, event_name, serialized, expression, executed>>

\* What run never changes: the queue's contents, the object, the fields of
\* the ingestor, and the S3EventName serde and the Not expression that are
\* apart from it.
serde == <<eventName, event_name, serialized>>
remap == <<expression, executed>>
config == <<msgs, delete_message, store, compression, multiline, sqs_config,
            ingestor, serde, remap>>
history == <<outcome, error, received, deletes, sinkFailed, inFlightAtShutdown,
             last>>
\* The line aggregator of the current object.
aggregator == <<buffer, timedOut>>

NoOutcome == [m \in MsgIds |-> "none"]
NoError == [kind |-> "none", bucket |-> "", key |-> <<>>, region |-> ""]
NoDecoder == [determined |-> None, compression |-> "none"]
NoEventName == [ok |-> FALSE, kind |-> <<>>, name |-> <<>>, error |-> "none"]
NoExpression == [operand |-> "none", nots |-> 0]

\* Mutant: the for loop takes the batch from its end.
message_Last == messages[Len(messages)]

\* The message the for loop of run is at.
message == Head(messages)

Issued(op, m) == [op |-> op, msg |-> m, shutdown |-> shutdown]

\* ------------------------------------------------- pure parts of the code

Range(s) == {s[i] : i \in 1..Len(s)}

Max(S) == CHOOSE x \in S : \A y \in S : y <= x

\* Option::or_else and Option::unwrap_or; Option::and_then is written out
\* where it is used: None stays None, Some(x) is given to the function.
OrElse(opt, alt) == IF opt # None THEN opt ELSE alt
UnwrapOr(opt, default) == IF opt = None THEN default ELSE opt[1]

\* Mutant: the handle is taken once, from the first message of the queue.
ReceiptHandle_OfFirst(m) == IF msgs[m].receipt_handle THEN HandleOf(1) ELSE None

\* Mutant: a message without a handle is handled as if it had one.
ReceiptHandle_Defaulted(m) == HandleOf(m)

\* message.receipt_handle (run, the match on the nullable handle): the handle
\* later given to delete_message, or None when the message carries none.
ReceiptHandle(m) == IF msgs[m].receipt_handle THEN HandleOf(m) ELSE None

\* Mutant: a body that is absent or empty is an S3Event without records.
ParseBody_EmptyIsNoEvent(body) ==
    LET text == IF body.text = "absent" THEN "" ELSE body.text IN
    IF text = "not json"
    THEN [ok |-> FALSE, records |-> <<>>]
    ELSE [ok |-> TRUE, records |-> IF text = "" THEN <<>> ELSE body.Records]

\* serde_json::from_str(message.body.unwrap_or_default()) in
\* handle_sqs_message: an absent body is the empty string, which is no JSON;
\* a body that is no S3Event fails as well.
ParseBody(body) ==
    LET text == IF body.text = "absent" THEN "" ELSE body.text IN
    IF text \in {"", "not json"}
    THEN [ok |-> FALSE, records |-> <<>>]
    ELSE [ok |-> TRUE, records |-> body.Records]

\* Mutant: the region test first, the kind test second.
RecordCheck_RegionFirst(record) ==
    IF OwnRegion # record.aws_region THEN "WrongRegion"
    ELSE IF record.kind # "ObjectCreated" THEN "Skip"
    ELSE "GetObject"

\* The two early returns of handle_s3_event_record, in the order of the code:
\* the kind test first, the region test second.
RecordCheck(record) ==
    IF record.kind # "ObjectCreated" THEN "Skip"
    ELSE IF OwnRegion # record.aws_region THEN "WrongRegion"
    ELSE "GetObject"

\* Mutant: the error names the region of the ingestor.
WrongRegion_OwnRegion(record) ==
    [kind |-> "WrongRegion", bucket |-> record.bucket, key |-> record.key,
     region |-> OwnRegion]

\* ProcessingError::WrongRegion of handle_s3_event_record.
WrongRegion(record) ==
    [kind |-> "WrongRegion", bucket |-> record.bucket, key |-> record.key,
     region |-> record.aws_region]

\* Mutant: the error does not carry the text of the read error.
ReadObject_NoText(err, record) ==
    [kind |-> "ReadObject", bucket |-> record.bucket, key |-> record.key,
     region |-> "", error |-> ""]

\* ProcessingError::ReadObject of handle_s3_event_record.
ReadObject(err, record) ==
    [kind |-> "ReadObject", bucket |-> record.bucket, key |-> record.key,
     region |-> "", error |-> err]

\* The ProcessingError of the given kind: InvalidSqsMessage names the
\* message, GetObject names the bucket and the key, ReadObject these and
\* the read error.
ProcessingError(kind, record) ==
    IF kind = "InvalidSqsMessage" THEN [NoError EXCEPT !.kind = kind]
    ELSE IF kind = "WrongRegion" THEN WrongRegion(record)
    ELSE IF kind = "ReadObject" THEN ReadObject(read_error[1], record)
    ELSE [kind |-> kind, bucket |-> record.bucket, key |-> record.key, region |-> ""]

\* The value handle_s3_event_record returns once send_all has returned:
\* the result of send_all is dropped by .ok(), only read_error decides.
ObjectResult(sendOk, readError) == IF readError # None THEN "ReadObject" ELSE "Ok"

\* Mutant: an object without a body is a failed GetObject.
BodyArm_NoneIsError(hasBody) == IF hasBody THEN "Send" ELSE "GetObject"

\* handle_s3_event_record, match object.body: Some(body) is decoded and
\* sent, None => Ok(()).
BodyArm(hasBody) == IF hasBody THEN "Send" ELSE "Ok"

\* Mutant: the result of the handling is not looked at.
ShouldDelete_IgnoresResult(res) == delete_message

\* Mutant: the delete_message option is not looked at.
ShouldDelete_IgnoresFlag(res) == res = "Ok"

\* Mutant: a message in hand when the shutdown signal is up is not deleted.
ShouldDelete_UnlessShutdown(res) == res = "Ok" /\ delete_message /\ ~shutdown

\* run: the Ok(()) arm of the match deletes when self.delete_message is set,
\* the Err arm does nothing.
ShouldDelete(res) == res = "Ok" /\ delete_message

\* Mutant: unwrap() in place of unwrap_or_default().
UnwrapOrDefault_Unwrap(res) ==
    IF res.ok THEN [pc |-> "Messages", messages |-> res.messages]
    ELSE [pc |-> "Panicked", messages |-> <<>>]

\* receive_messages().await.unwrap_or_default(): an error is an empty batch
\* and run goes on to its for loop.
UnwrapOrDefault(res) ==
    [pc |-> "Messages", messages |-> IF res.ok THEN res.messages ELSE <<>>]

\* Mutant: the shutdown arm is ready whether or not the signal was raised.
ShutdownReady_Always == TRUE

\* select!: the arm `_ = &mut shutdown` is ready once the signal is raised.
ShutdownReady == shutdown

\* Mutant: break Err(()).
ShutdownArm_Err == [pc |-> "Stopped", result |-> "Err"]

\* select!: the arm taken when the shutdown future is ready, break Ok(()).
ShutdownArm == [pc |-> "Stopped", result |-> "Ok"]

\* self.delete_message(..).await.unwrap(): Ok goes on with the for loop, Err
\* panics the task.
DeleteUnwrap(ok) == IF ok THEN "Messages" ELSE "Panicked"

\* ---- the lines of an object and the events made of them

\* FramedRead with BytesDelimitedCodec::new(b'\n'): the frames of the bytes,
\* each ended by the delimiter, which is left out; bytes after the last
\* delimiter are a frame of their own.
RECURSIVE BytesDelimited(_)
BytesDelimited(bytes) ==
    IF bytes = <<>> THEN <<>>
    ELSE IF "\n" \in Range(bytes)
    THEN LET i == CHOOSE j \in 1..Len(bytes) :
                      bytes[j] = "\n" /\ \A k \in 1..(j - 1) : bytes[k] # "\n"
         IN  <<SubSeq(bytes, 1, i - 1)>> \o
             BytesDelimited(SubSeq(bytes, i + 1, Len(bytes)))
    ELSE <<bytes>>

\* Event::from(line): a log event whose message is the line.
EventFrom(line) == [message |-> line, fields |-> <<>>]

\* LogEvent::insert: a later value of a key replaces the earlier one.
Insert(log, key, value) == [log EXCEPT !.fields = (key :> value) @@ log.fields]

\* for (key, value) in metadata { log.insert(key, value.clone()) }
InsertAll(log, metadata) == [log EXCEPT !.fields = metadata @@ log.fields]

\* Mutant: the user metadata first, then bucket, object and region.
FilterMap_MetadataFirst(line, s3_event, metadata) ==
    LET log == IF metadata = None THEN EventFrom(line)
               ELSE InsertAll(EventFrom(line), metadata[1])
    IN  Some(Insert(Insert(Insert(log,
                 "bucket", s3_event.bucket),
                 "object", s3_event.key),
                 "region", s3_event.aws_region))

\* Mutant: an empty line makes no event.
FilterMap_SkipEmpty(line, s3_event, metadata) ==
    IF line = <<>> THEN None
    ELSE LET log == Insert(Insert(Insert(EventFrom(line),
                        "bucket", s3_event.bucket),
                        "object", s3_event.key),
                        "region", s3_event.aws_region)
         IN  Some(IF metadata = None THEN log ELSE InsertAll(log, metadata[1]))

\* The closure of lines.filter_map: the event of a line gets bucket, object
\* and region of the notification record, then the user metadata of the
\* object; every line makes an event.
FilterMap(line, s3_event, metadata) ==
    LET log == Insert(Insert(Insert(EventFrom(line),
                   "bucket", s3_event.bucket),
                   "object", s3_event.key),
                   "region", s3_event.aws_region)
    IN  Some(IF metadata = None THEN log ELSE InsertAll(log, metadata[1]))

\* ---- the aggregation of lines

\* Regex::is_match of a literal pattern.
IsMatch(pattern, line) == pattern \in Range(line)

\* A line added to an aggregate: the two joined by '\n'.
AddNextLine(buffered, line) == buffered \o <<"\n">> \o line

\* line_agg::Logic on one line: what it holds afterwards and what it emits.
\* With nothing held, a line matching start_pattern is held and any other
\* line is passed through. With an aggregate held, the mode decides.
HandleLine(cfg, held, line) ==
    IF held = None
    THEN IF IsMatch(cfg.start_pattern, line)
         THEN [buffer |-> Some(line), emit |-> None]
         ELSE [buffer |-> None, emit |-> Some(line)]
    ELSE LET matched == IsMatch(cfg.condition_pattern, line)
             appended == AddNextLine(held[1], line)
         IN  CASE cfg.mode = "ContinueThrough" ->
                    IF matched THEN [buffer |-> Some(appended), emit |-> None]
                    ELSE [buffer |-> Some(line), emit |-> held]
               [] cfg.mode = "ContinuePast" ->
                    IF matched THEN [buffer |-> None, emit |-> Some(appended)]
                    ELSE [buffer |-> Some(line), emit |-> held]
               [] cfg.mode = "HaltBefore" ->
                    IF matched THEN [buffer |-> Some(line), emit |-> held]
                    ELSE [buffer |-> Some(appended), emit |-> None]
               [] cfg.mode = "HaltWith" ->
                    IF matched THEN [buffer |-> None, emit |-> Some(appended)]
                    ELSE [buffer |-> Some(appended), emit |-> None]

\* handle_s3_event_record, `if let Some(config) = &self.multiline`: the
\* lines go through LineAgg when multiline is configured, and as they are
\* otherwise.
LineAgg(cfg, held, line) ==
    IF cfg = None THEN [buffer |-> None, emit |-> Some(line)]
    ELSE HandleLine(cfg[1], held, line)

\* ---- the decoder of an object

content_encoding_to_compression(content_encoding) ==
    CASE content_encoding = "gzip" -> Some("Gzip")
      [] content_encoding = "zstd" -> Some("Zstd")
      [] OTHER -> None

content_type_to_compression(content_type) ==
    CASE content_type \in {"application/gzip", "application/x-gzip"} -> Some("Gzip")
      [] content_type = "application/zstd" -> Some("Zstd")
      [] OTHER -> None

RECURSIVE StripSlashes(_)
StripSlashes(path) ==
    IF path # <<>> /\ path[Len(path)] = "/"
    THEN StripSlashes(SubSeq(path, 1, Len(path) - 1))
    ELSE path

\* Path::file_name: the last component of the path, slashes at its end left
\* out; none when that is "." or "..".
FileName(path) ==
    LET p == StripSlashes(path)
        slashes == {i \in 1..Len(p) : p[i] = "/"}
        file == SubSeq(p, IF slashes = {} THEN 1 ELSE Max(slashes) + 1, Len(p))
    IN  IF file \in {<<>>, <<".">>, <<".", ".">>} THEN None ELSE Some(file)

\* Path::extension: what follows the last '.' of the file name, none when
\* there is no '.' or nothing before the last one.
ExtensionOf(file) ==
    LET dots == {i \in 1..Len(file) : file[i] = "."}
    IN  IF dots = {} \/ Max(dots) = 1 THEN None
        ELSE Some(SubSeq(file, Max(dots) + 1, Len(file)))

Extension(path) ==
    IF FileName(path) = None THEN None ELSE ExtensionOf(FileName(path)[1])

ExtensionToCompression(extension) ==
    CASE extension = <<"gz">> -> Some("Gzip")
      [] extension = <<"zst">> -> Some("Zstd")
      [] OTHER -> None

object_key_to_compression(key) ==
    IF Extension(key) = None THEN None
    ELSE ExtensionToCompression(Extension(key)[1])

\* content_encoding.and_then(content_encoding_to_compression)
EncodingToCompression(content_encoding) ==
    IF content_encoding = None THEN None
    ELSE content_encoding_to_compression(content_encoding[1])

\* content_type.and_then(content_type_to_compression)
TypeToCompression(content_type) ==
    IF content_type = None THEN None
    ELSE content_type_to_compression(content_type[1])

\* Mutant: content-type before content-encoding.
determine_compression_TypeFirst(key, content_encoding, content_type) ==
    OrElse(OrElse(TypeToCompression(content_type),
                  EncodingToCompression(content_encoding)),
           object_key_to_compression(key))

determine_compression(key, content_encoding, content_type) ==
    OrElse(OrElse(EncodingToCompression(content_encoding),
                  TypeToCompression(content_type)),
           object_key_to_compression(key))

\* Mutant: unwrap_or(compression), so that nothing detected leaves Auto.
s3_object_decoder_KeepsAuto(c, key, content_encoding, content_type) ==
    IF c = "Auto"
    THEN LET determined == determine_compression(key, content_encoding, content_type)
         IN  [determined |-> Some(determined),
              compression |-> UnwrapOr(determined, c)]
    ELSE [determined |-> None, compression |-> c]

\* s3_object_decoder: what determine_compression returned, when it was
\* asked, and the compression the reader is wrapped for.
s3_object_decoder(c, key, content_encoding, content_type) ==
    IF c = "Auto"
    THEN LET determined == determine_compression(key, content_encoding, content_type)
         IN  [determined |-> Some(determined),
              compression |-> UnwrapOr(determined, "None")]
    ELSE [determined |-> None, compression |-> c]

\* ---- SqsIngestor::new

\* Option::ok_or
OkOr(opt) == [ok |-> opt # None, value |-> UnwrapOr(opt, "")]

\* Mutant: the cast `as i64`.
TryInto_Cast(u) == [ok |-> TRUE, value |-> u]

\* u64 -> i64 by try_into: an error when the value has bit 63 set.
TryInto(u) == [ok |-> u[1] < SignBit, value |-> u]

NotBuilt ==
    [result |-> "none", queue_url |-> "", visibility_timeout_secs |-> U64(0, 0, 0, 0),
     poll_interval |-> 0]

NewFailed(err) == [NotBuilt EXCEPT !.result = err]

\* SqsIngestor::new: the SqsIngestorNewError, or the ingestor.
SqsIngestorNew(cfg) ==
    IF ~cfg.get_queue_url.ok THEN NewFailed("FetchQueueUrl")
    ELSE LET queue_url == OkOr(cfg.get_queue_url.queue_url) IN
         IF ~queue_url.ok THEN NewFailed("MissingQueueUrl")
         ELSE LET visibility_timeout_secs == TryInto(cfg.visibility_timeout_secs) IN
              IF ~visibility_timeout_secs.ok THEN NewFailed("InvalidVisibilityTimeout")
              ELSE [result |-> "Ok",
                    queue_url |-> queue_url.value,
                    visibility_timeout_secs |-> visibility_timeout_secs.value,
                    poll_interval |-> cfg.poll_secs]

\* Mutant: a period of zero is taken as it is.
Interval_Unchecked(period) == "Idle"

\* run, before its loop: time::interval(self.poll_interval). tokio asserts
\* that the period is not zero, so a zero period panics the task; with any
\* other period run goes on to its select!.
Interval(period) == IF period = 0 THEN "Panicked" ELSE "Idle"

\* Mutant: the request leaves visibility_timeout to the queue's default.
ReceiveMessageRequest_QueueDefault ==
    [queue_url |-> ingestor.queue_url,
     max_number_of_messages |-> MaxNumberOfMessages,
     visibility_timeout |-> U64(0, 0, 0, 30)]

\* The ReceiveMessageRequest of receive_messages.
ReceiveMessageRequest ==
    [queue_url |-> ingestor.queue_url,
     max_number_of_messages |-> MaxNumberOfMessages,
     visibility_timeout |-> ingestor.visibility_timeout_secs]

\* ---- serde of S3EventName

\* str::splitn(2, ":"): the string up to the first ':' and, when there is a
\* ':', the rest of the string.
Splitn2(s) ==
    IF ":" \in Range(s)
    THEN LET i == CHOOSE j \in 1..Len(s) :
                      s[j] = ":" /\ \A k \in 1..(j - 1) : s[k] # ":"
         IN  <<SubSeq(s, 1, i - 1), SubSeq(s, i + 1, Len(s))>>
    ELSE <<s>>

\* Mutant: an empty kind or an empty name is an error.
Deserialize_NoEmpty(s) ==
    LET parts == Splitn2(s) IN
    IF Len(parts) < 2 THEN [NoEventName EXCEPT !.error = "Missing event name"]
    ELSE IF parts[1] = <<>> \/ parts[2] = <<>>
    THEN [NoEventName EXCEPT !.error = "Missing event"]
    ELSE [ok |-> TRUE, kind |-> parts[1], name |-> parts[2], error |-> "none"]

\* impl Deserialize for S3EventName: kind is the first part, which splitn
\* always yields, name is the second part, an error when there is none.
Deserialize(s) ==
    LET parts == Splitn2(s) IN
    IF Len(parts) < 2 THEN [NoEventName EXCEPT !.error = "Missing event name"]
    ELSE [ok |-> TRUE, kind |-> parts[1], name |-> parts[2], error |-> "none"]

\* impl Serialize for S3EventName: format!("{}:{}", self.name, self.kind)
Serialize(en) == en.name \o <<":">> \o en.kind

\* ---- remap-lang: the Not expression

\* Value: its kind and what it holds; Value::Boolean(b).
Value(kind, held) == <<kind, held>>
Boolean(b) == Value("Boolean", b)
Kind(v) == v[1]

\* The values of the kinds other than Boolean.
OtherValues ==
    {Value("Integer", "0"), Value("Integer", "1"), Value("Float", "1.5"),
     Value("String", "not a bool"), Value("String", "true"), Value("Null", "null"),
     Value("Array", "[true]"), Value("Map", "{}")}

\* Result<Option<Value>>: Ok(opt) and Err(error).
Ok(opt) == [ok |-> TRUE, value |-> opt, error |-> <<>>]
Err(e) == [ok |-> FALSE, value |-> None, error |-> e]

\* value::Error::Expected(expected, got), wrapped as the error of Not.
Expected(expected, got) == <<"Expected", expected, got>>

\* What the operand of a Not may execute to: an error of its own, no value,
\* or a value.
Operands ==
    {Err(<<"path error">>), Err(<<"function error">>), Ok(None)} \cup
    {Ok(Some(Boolean(b))) : b \in BOOLEAN} \cup
    {Ok(Some(v)) : v \in OtherValues}

Expressions == [operand : Operands, nots : 1..MaxNots]

\* Mutant: a value that is no Boolean counts as false.
NotExecute_Falsy(res) ==
    IF ~res.ok THEN res
    ELSE IF res.value = None THEN Ok(None)
    ELSE IF Kind(res.value[1]) = "Boolean"
    THEN Ok(Some(Boolean(~res.value[1][2])))
    ELSE Ok(Some(Boolean(TRUE)))

\* Not::execute, given what self.expression.execute returned: and_then
\* passes an Err on; map and transpose leave Ok(None) as it is; a Boolean
\* is negated and any other value is the error Expected(Boolean, v.kind()).
NotExecute(res) ==
    IF ~res.ok THEN res
    ELSE IF res.value = None THEN Ok(None)
    ELSE IF Kind(res.value[1]) = "Boolean"
    THEN Ok(Some(Boolean(~res.value[1][2])))
    ELSE Err(Expected("Boolean", Kind(res.value[1])))

\* ------------------------------------------------------------ environment

RECURSIVE Ordered(_)
Ordered(S) ==
    IF S = {} THEN <<>>
    ELSE LET x == CHOOSE y \in S : \A z \in S : y <= z
         IN  <<x>> \o Ordered(S \ {x})

\* What ReceiveMessage may answer: an error, or at most
\* max_number_of_messages of the messages on the queue.
ReceiveResults(q) ==
    {[ok |-> FALSE, messages |-> Ordered(q)]} \cup
    {[ok |-> TRUE, messages |-> Ordered(S)] :
        S \in {T \in SUBSET q : Cardinality(T) <= MaxNumberOfMessages}}

Records(m) == ParseBody(msgs[m].body).records

\* ------------------------------------------------------------ first states

\* Nothing was received or handled yet.
Fresh ==
    /\ queue = MsgIds
    /\ shutdown = FALSE
    /\ result = "Running"
    /\ messages = <<>>
    /\ ri = 0
    /\ li = 0
    /\ lines = <<>>
    /\ read_error = None
    /\ decoder = NoDecoder
    /\ buffer = None
    /\ sent = <<>>
    /\ outcome = NoOutcome
    /\ error = NoError
    /\ received = "none"
    /\ deletes = <<>>
    /\ sinkFailed = {}
    /\ inFlightAtShutdown = {}
    /\ last = [op |-> "none", msg |-> {}, shutdown |-> FALSE]
    /\ delivered = FALSE
    /\ timedOut = FALSE

\* The ingestor was built from the default SqsConfig.
Built ==
    /\ sqs_config = DefaultSqsConfig
    /\ ingestor = SqsIngestorNew(DefaultSqsConfig)

\* No eventName and no expression is at hand.
NoSerde ==
    /\ eventName = <<>>
    /\ event_name = NoEventName
    /\ serialized = <<>>
    /\ expression = NoExpression
    /\ executed = <<>>

\* The loop on every queue, with the object fixed.
Init ==
    /\ Fresh
    /\ Built
    /\ NoSerde
    /\ pc = "Idle"
    /\ msgs \in Notifications
    /\ delete_message \in BOOLEAN
    /\ store = DefaultObject
    /\ compression = "Auto"
    /\ multiline = None

\* ---------------------------------------------------------------- actions

\* The ShutdownSignal is raised by the topology, at any time.
RaiseShutdown ==
    /\ ~shutdown
    /\ pc \notin {"Stopped", "Panicked", "New", "Failed"}
    /\ shutdown' = TRUE
    /\ inFlightAtShutdown' = IF pc \in {"GetObject", "Send"} THEN {message} ELSE {}
    /\ UNCHANGED <<config, queue, pc, result, messages, ri, li, lines, read_error,
                   decoder, sent, outcome, error, received, deletes,
                   sinkFailed, last, delivered, aggregator>>

\* select!: the interval ticks; receive_messages is called. When the tick and
\* the shutdown signal are both ready select! takes either arm. The else arm
\* needs the interval stream to end, which time::interval never does.
Tick ==
    /\ pc = "Idle"
    /\ pc' = "Polling"
    /\ last' = Issued("receive", {})
    /\ UNCHANGED <<config, queue, shutdown, result, messages, ri, li, lines,
                   read_error, decoder, sent, outcome, error, received,
                   deletes, sinkFailed, inFlightAtShutdown, delivered,
                   aggregator>>

\* select!: the shutdown future is ready; break Ok(()).
ShutdownObserved ==
    /\ pc = "Idle"
    /\ ShutdownReady
    /\ pc' = ShutdownArm.pc
    /\ result' = ShutdownArm.result
    /\ UNCHANGED <<config, queue, shutdown, messages, ri, li, lines, read_error,
                   decoder, sent, history, delivered, aggregator>>

\* receive_messages returns.
ReceiveMessages ==
    /\ pc = "Polling"
    /\ \E res \in ReceiveResults(queue) :
          /\ messages' = UnwrapOrDefault(res).messages
          /\ pc' = UnwrapOrDefault(res).pc
          /\ received' = IF res.ok THEN "Ok" ELSE "Err"
    /\ UNCHANGED <<config, queue, shutdown, result, ri, li, lines, read_error,
                   decoder, sent, outcome, error, deletes, sinkFailed,
                   inFlightAtShutdown, last, delivered, aggregator>>

\* Mutant: the error of a notification record is noted and the for loop of
\* handle_s3_event goes on with the next record.
Finish_NextRecord(res) ==
    /\ outcome' = [outcome EXCEPT ![message] = res]
    /\ error' = IF res = "Ok" THEN error
                ELSE ProcessingError(res, Records(message)[ri])
    /\ IF res # "Ok"
       THEN /\ ri' = ri + 1
            /\ pc' = "Records"
            /\ UNCHANGED <<messages, deletes, last>>
       ELSE /\ ri' = 0
            /\ IF ShouldDelete(res)
               THEN /\ pc' = "Delete"
                    /\ deletes' = Append(deletes, [msg |-> message,
                                                    receipt_handle |-> ReceiptHandle(message)])
                    /\ last' = Issued("delete", {message})
                    /\ UNCHANGED messages
               ELSE /\ pc' = "Messages"
                    /\ messages' = Tail(messages)
                    /\ UNCHANGED <<deletes, last>>

\* handle_sqs_message returned res: the match in run. The record iterator of
\* handle_s3_event is gone.
Finish(res) ==
    /\ outcome' = [outcome EXCEPT ![message] = res]
    /\ error' = IF res = "Ok" THEN error
                ELSE ProcessingError(res, Records(message)[ri])
    /\ ri' = 0
    /\ IF ShouldDelete(res)
       THEN /\ pc' = "Delete"
            /\ deletes' = Append(deletes, [msg |-> message,
                                            receipt_handle |-> ReceiptHandle(message)])
            /\ last' = Issued("delete", {message})
            /\ UNCHANGED messages
       ELSE /\ pc' = "Messages"
            /\ messages' = Tail(messages)
            /\ UNCHANGED <<deletes, last>>

\* The head of the for loop in run: the end of the batch, or the next message
\* up to the first await of its handling.
NextMessage ==
    /\ pc = "Messages"
    /\ IF messages = <<>>
       THEN /\ pc' = "Idle"
            /\ outcome' = NoOutcome
            /\ error' = NoError
            /\ received' = "none"
            /\ deletes' = <<>>
            /\ sinkFailed' = {}
            /\ inFlightAtShutdown' = {}
            /\ last' = [op |-> "none", msg |-> {}, shutdown |-> FALSE]
            /\ UNCHANGED <<messages, ri>>
       ELSE /\ IF ReceiptHandle(message) = None
               THEN /\ outcome' = [outcome EXCEPT ![message] = "NoReceiptHandle"]
                    /\ messages' = Tail(messages)
                    /\ UNCHANGED <<pc, ri, error, last>>
               ELSE IF ~ParseBody(msgs[message].body).ok
               THEN /\ outcome' = [outcome EXCEPT ![message] = "InvalidSqsMessage"]
                    /\ error' = ProcessingError("InvalidSqsMessage", None)
                    /\ messages' = Tail(messages)
                    /\ last' = Issued("handle_sqs_message", {message})
                    /\ UNCHANGED <<pc, ri>>
               ELSE /\ ri' = 1
                    /\ pc' = "Records"
                    /\ last' = Issued("handle_sqs_message", {message})
                    /\ UNCHANGED <<messages, outcome, error>>
            /\ UNCHANGED <<received, deletes, sinkFailed, inFlightAtShutdown>>
    /\ delivered' = FALSE
    /\ UNCHANGED <<config, queue, shutdown, result, li, lines, read_error, decoder,
                   sent, aggregator>>

\* The head of the for loop in handle_s3_event and the part of
\* handle_s3_event_record before its first await.
NextRecord ==
    /\ pc = "Records"
    /\ IF ri > Len(Records(message))
       THEN Finish("Ok")
       ELSE LET check == RecordCheck(Records(message)[ri]) IN
            IF check = "Skip"
            THEN /\ ri' = ri + 1
                 /\ UNCHANGED <<pc, messages, outcome, error, deletes, last>>
            ELSE IF check = "WrongRegion"
            THEN Finish("WrongRegion")
            ELSE /\ pc' = "GetObject"
                 /\ last' = Issued("get_object", {message})
                 /\ UNCHANGED <<ri, messages, outcome, error, deletes>>
    /\ UNCHANGED <<config, queue, shutdown, result, li, lines, read_error, decoder,
                   sent, received, sinkFailed, inFlightAtShutdown, delivered,
                   aggregator>>

\* s3_client.get_object returns: an error, an object without a body, or an
\* object whose body is given to s3_object_decoder and framed into lines to
\* be streamed to the pipeline.
GetObject ==
    /\ pc = "GetObject"
    /\ \E res \in {"Err", "NoBody", "Body"} :
          IF res = "Err"
          THEN Finish("GetObject") /\ UNCHANGED <<li, lines, read_error, decoder>>
          ELSE LET arm == BodyArm(res = "Body") IN
          IF arm = "Ok"
          THEN /\ ri' = ri + 1
               /\ pc' = "Records"
               /\ UNCHANGED <<messages, li, lines, read_error, decoder, outcome,
                              error, deletes, last>>
          ELSE IF arm = "Send"
          THEN /\ pc' = "Send"
               /\ li' = 0
               /\ lines' = BytesDelimited(store.body)
               /\ read_error' = None
               /\ decoder' = s3_object_decoder(compression,
                                               Records(message)[ri].key,
                                               store.content_encoding,
                                               store.content_type)
               /\ UNCHANGED <<messages, ri, outcome, error, deletes, last>>
          ELSE Finish(arm) /\ UNCHANGED <<li, lines, read_error, decoder>>
    /\ UNCHANGED <<config, queue, shutdown, result, sent, received,
                   sinkFailed, inFlightAtShutdown, delivered, aggregator>>

\* What the stream given to send_all yields next: nothing, or a line or an
\* aggregate, which filter_map makes an event and the pipeline accepts.
Deliver(emit) ==
    IF emit = None THEN UNCHANGED <<sent, delivered, last>>
    ELSE /\ sent' = sent \o FilterMap(emit[1], Records(message)[ri],
                                      store.metadata)
         /\ delivered' = TRUE
         /\ last' = Issued("forward", {message})

\* send_all polls its stream: the next line of the object is framed and,
\* when multiline is configured, aggregated; once the lines have ended, by
\* the end of the object or a read error, the aggregator gives what it holds.
Forward ==
    /\ pc = "Send"
    /\ IF read_error = None /\ lines # <<>>
       THEN LET agg == LineAgg(multiline, buffer, Head(lines)) IN
            /\ li' = li + 1
            /\ lines' = Tail(lines)
            /\ buffer' = agg.buffer
            /\ Deliver(agg.emit)
       ELSE /\ buffer # None
            /\ buffer' = None
            /\ Deliver(buffer)
            /\ UNCHANGED <<li, lines>>
    /\ UNCHANGED <<config, queue, shutdown, pc, result, messages, ri,
                   read_error, decoder, outcome, error, received, deletes,
                   sinkFailed, inFlightAtShutdown, timedOut>>

\* FramedRead yields an error: take_while records it and ends the stream.
ReadError ==
    /\ pc = "Send"
    /\ read_error = None
    /\ read_error' = Some(store.io_error)
    /\ UNCHANGED <<config, queue, shutdown, pc, result, messages, ri, li, lines,
                   decoder, sent, outcome, error, received, deletes,
                   sinkFailed, inFlightAtShutdown, last, delivered, aggregator>>

\* The timeout of the line aggregator passes while the next line is awaited:
\* the aggregate it holds is emitted.
Timeout ==
    /\ pc = "Send"
    /\ read_error = None
    /\ lines # <<>>
    /\ buffer # None
    /\ buffer' = None
    /\ timedOut' = TRUE
    /\ Deliver(buffer)
    /\ UNCHANGED <<config, queue, shutdown, pc, result, messages, ri, li, lines,
                   read_error, decoder, outcome, error, received, deletes,
                   sinkFailed, inFlightAtShutdown>>

\* send_all returns: Ok once the stream has ended and the pipeline took all
\* of it, Err as soon as the pipeline rejects.
SendAll ==
    /\ pc = "Send"
    /\ \E sendOk \in BOOLEAN :
          /\ sendOk => (read_error # None \/ lines = <<>>) /\ buffer = None
          /\ sinkFailed' = IF sendOk THEN sinkFailed ELSE sinkFailed \cup {message}
          /\ LET res == ObjectResult(sendOk, read_error) IN
             IF res = "Ok"
             THEN /\ ri' = ri + 1
                  /\ pc' = "Records"
                  /\ UNCHANGED <<messages, outcome, error, deletes, last>>
             ELSE Finish(res)
    /\ li' = 0
    /\ lines' = <<>>
    /\ read_error' = None
    /\ decoder' = NoDecoder
    /\ buffer' = None
    /\ timedOut' = FALSE
    /\ sent' = <<>>
    /\ UNCHANGED <<config, queue, shutdown, result, received,
                   inFlightAtShutdown, delivered>>

\* sqs_client.delete_message returns; run unwraps the result.
DeleteMessage ==
    /\ pc = "Delete"
    /\ \E ok \in BOOLEAN :
          /\ queue' = IF ok THEN queue \ {message} ELSE queue
          /\ pc' = DeleteUnwrap(ok)
    /\ messages' = Tail(messages)
    /\ UNCHANGED <<config, shutdown, result, ri, li, lines, read_error, decoder,
                   sent, history, delivered, aggregator>>

Next ==
    \/ RaiseShutdown
    \/ Tick
    \/ ShutdownObserved
    \/ ReceiveMessages
    \/ NextMessage
    \/ NextRecord
    \/ GetObject
    \/ Forward
    \/ ReadError
    \/ SendAll
    \/ DeleteMessage

Spec == Init /\ [][Next]_vars

\* The loop's own steps: every await of run eventually returns.
LoopStep ==
    \/ ReceiveMessages
    \/ NextMessage
    \/ NextRecord
    \/ GetObject
    \/ Forward
    \/ SendAll
    \/ DeleteMessage

\* ------------------------------------------------ the loop on one object

\* A message without a receipt handle.
NoHandle ==
    [receipt_handle |-> FALSE, body |-> [text |-> "S3Event", Records |-> <<Fetchable>>]]

\* The queue of one notification: message 1 has a receipt handle and the
\* one record, every other message has no receipt handle.
OneNotification(record) ==
    [m \in MsgIds |->
        IF m = 1
        THEN [receipt_handle |-> TRUE,
              body |-> [text |-> "S3Event", Records |-> <<record>>]]
        ELSE NoHandle]

\* The record, the object and the compression option, one of the three
\* varying: the content of the object and the error of its reads; the record
\* and the user metadata; the key, the content-encoding, the content-type
\* and the option.
ObjectCases ==
    {[record |-> Fetchable,
      store |-> [DefaultObject EXCEPT !.body = b, !.io_error = e],
      compression |-> "Auto"] : b \in SeqsUpTo(Bytes, MaxBytes), e \in IoErrors} \cup
    {[record |-> r,
      store |-> [DefaultObject EXCEPT !.metadata = md],
      compression |-> "Auto"] : r \in AnyS3EventRecord, md \in Metadatas} \cup
    {[record |-> [Fetchable EXCEPT !.key = k],
      store |-> [DefaultObject EXCEPT !.content_encoding = ce, !.content_type = ct],
      compression |-> c] :
        k \in Keys, ce \in ContentEncodings, ct \in ContentTypes, c \in Compressions}

ObjectInit ==
    /\ Fresh
    /\ Built
    /\ NoSerde
    /\ pc = "Idle"
    /\ delete_message \in BOOLEAN
    /\ \E c \in ObjectCases :
          /\ msgs = OneNotification(c.record)
          /\ store = c.store
          /\ compression = c.compression
    /\ multiline = None

ObjectSpec == ObjectInit /\ [][Next]_vars

\* ------------------------------------- the loop with multiline aggregation

\* The content of an object written from the given lines: logs.join("\n").
RECURSIVE Join(_)
Join(ls) ==
    IF ls = <<>> THEN <<>>
    ELSE IF Len(ls) = 1 THEN ls[1]
    ELSE ls[1] \o <<"\n">> \o Join(Tail(ls))

\* One notification of an object of up to MaxAggLines lines, read by an
\* ingestor with any multiline configuration.
MultilineInit ==
    /\ Fresh
    /\ Built
    /\ NoSerde
    /\ pc = "Idle"
    /\ msgs = OneNotification(Fetchable)
    /\ delete_message \in BOOLEAN
    /\ \E ls \in SeqsUpTo(AggLines, MaxAggLines) :
          store = [DefaultObject EXCEPT !.body = Join(ls)]
    /\ compression = "Auto"
    /\ multiline \in {Some(c) : c \in MultilineConfigs}

MultilineNext == Next \/ Timeout

MultilineSpec == MultilineInit /\ [][MultilineNext]_vars

\* ------------------------------------------- the loop on every body

\* The queue of one message with a receipt handle and any body, an empty
\* one among them; every other message has no receipt handle.
BodyInit ==
    /\ Fresh
    /\ Built
    /\ NoSerde
    /\ pc = "Idle"
    /\ \E b \in Bodies \cup {EmptyBody} :
          msgs = [m \in MsgIds |->
                     IF m = 1 THEN [receipt_handle |-> TRUE, body |-> b]
                     ELSE NoHandle]
    /\ delete_message \in BOOLEAN
    /\ store = DefaultObject
    /\ compression = "Auto"
    /\ multiline = None

BodySpec == BodyInit /\ [][Next]_vars

\* ---------------------------------------------------- SqsIngestor::new

\* new() is about to be called with any SqsConfig; no message of the queue
\* has a receipt handle.
NewInit ==
    /\ Fresh
    /\ NoSerde
    /\ pc = "New"
    /\ sqs_config \in SqsConfigs
    /\ ingestor = NotBuilt
    /\ msgs = [m \in MsgIds |-> NoHandle]
    /\ delete_message \in BOOLEAN
    /\ store = DefaultObject
    /\ compression = "Auto"
    /\ multiline = None

\* SqsIngestor::new returns; the source runs the ingestor it got, and run
\* makes its interval.
New ==
    /\ pc = "New"
    /\ ingestor' = SqsIngestorNew(sqs_config)
    /\ pc' = IF SqsIngestorNew(sqs_config).result = "Ok"
             THEN Interval(SqsIngestorNew(sqs_config).poll_interval)
             ELSE "Failed"
    /\ UNCHANGED <<msgs, queue, delete_message, store, compression, multiline,
                   sqs_config, shutdown, result, messages, ri, li, lines,
                   read_error, decoder, sent, history, delivered, aggregator,
                   serde, remap>>

NewNext ==
    \/ New
    \/ RaiseShutdown
    \/ Tick
    \/ ShutdownObserved
    \/ ReceiveMessages
    \/ NextMessage

NewSpec == NewInit /\ [][NewNext]_vars

\* ------------------------------------------------- serde of S3EventName

\* serde_json::from_str of handle_sqs_message is at the eventName of a
\* record, which is any string.
NameInit ==
    /\ Fresh
    /\ Built
    /\ pc = "FromStr"
    /\ eventName \in EventNames
    /\ event_name = NoEventName
    /\ serialized = <<>>
    /\ expression = NoExpression
    /\ executed = <<>>
    /\ msgs = OneNotification(Fetchable)
    /\ delete_message \in BOOLEAN
    /\ store = DefaultObject
    /\ compression = "Auto"
    /\ multiline = None

\* The eventName is deserialized: the S3EventName, or the serde error that
\* handle_sqs_message returns as InvalidSqsMessage.
FromStr ==
    /\ pc = "FromStr"
    /\ event_name' = Deserialize(eventName)
    /\ IF Deserialize(eventName).ok
       THEN pc' = "Parsed" /\ UNCHANGED error
       ELSE /\ pc' = "Rejected"
            /\ error' = ProcessingError("InvalidSqsMessage", None)
    /\ UNCHANGED <<msgs, queue, delete_message, store, compression, multiline,
                   sqs_config, ingestor, shutdown, result, messages, ri, li, lines,
                   read_error, decoder, sent, outcome, received, deletes,
                   sinkFailed, inFlightAtShutdown, last, delivered, aggregator,
                   eventName, serialized, remap>>

\* The S3EventName is serialized.
SerializeName ==
    /\ pc = "Parsed"
    /\ serialized' = Serialize(event_name)
    /\ pc' = "Serialized"
    /\ UNCHANGED <<msgs, queue, delete_message, store, compression, multiline,
                   sqs_config, ingestor, shutdown, result, messages, ri, li, lines,
                   read_error, decoder, sent, history, delivered, aggregator,
                   eventName, event_name, remap>>

NameNext == FromStr \/ SerializeName

NameSpec == NameInit /\ [][NameNext]_vars

\* ------------------------------------------------------ remap-lang: Not

\* An operand with up to MaxNots Nots around it is about to be executed.
NotInit ==
    /\ Fresh
    /\ Built
    /\ pc = "Execute"
    /\ eventName = <<>>
    /\ event_name = NoEventName
    /\ serialized = <<>>
    /\ expression \in Expressions
    /\ executed = <<>>
    /\ msgs = OneNotification(Fetchable)
    /\ delete_message = TRUE
    /\ store = DefaultObject
    /\ compression = "Auto"
    /\ multiline = None

\* The innermost Not calls self.expression.execute: the operand executes.
ExecuteOperand ==
    /\ pc = "Execute"
    /\ executed = <<>>
    /\ executed' = <<expression.operand>>
    /\ UNCHANGED <<msgs, queue, delete_message, store, compression, multiline,
                   sqs_config, ingestor, shutdown, pc, result, messages, ri, li,
                   lines, read_error, decoder, sent, history, delivered,
                   aggregator, serde, expression>>

\* The next Not, from the inside, gets the result of its expression and
\* returns its own.
ExecuteNot ==
    /\ pc = "Execute"
    /\ executed # <<>>
    /\ executed' = Append(executed, NotExecute(executed[Len(executed)]))
    /\ pc' = IF Len(executed) = expression.nots THEN "Executed" ELSE pc
    /\ UNCHANGED <<msgs, queue, delete_message, store, compression, multiline,
                   sqs_config, ingestor, shutdown, result, messages, ri, li,
                   lines, read_error, decoder, sent, history, delivered,
                   aggregator, serde, expression>>

NotNext == ExecuteOperand \/ ExecuteNot

NotSpec == NotInit /\ [][NotNext]_vars

\* ------------------------------------------------------------- properties

Failures == {"NoReceiptHandle", "InvalidSqsMessage", "WrongRegion", "GetObject",
             "ReadObject"}

\* The calls of delete_message made for message m in the current poll.
DeletesOf(m) == {i \in 1..Len(deletes) : deletes[i].msg = m}

\* The current poll has handled every message of its batch.
BatchDone == pc = "Messages" /\ messages = <<>>

\* run is inside the handling of the message the for loop is at.
Handling == pc \in {"Records", "GetObject", "Send"}

\* The queues S3 itself fills: every message has a receipt handle and the
\* JSON of an S3Event as its body, and every record is of the own region
\* (S3 sends its notifications to a queue of the same region).
HandledNotifications ==
    {f \in Notifications :
        \A m \in MsgIds :
            /\ f[m].receipt_handle
            /\ f[m].body.text = "S3Event"
            /\ \A r \in Range(f[m].body.Records) : r.aws_region = OwnRegion}

\* The loop on such a queue under fair scheduling: every await returns, and
\* select!, which polls its ready arms in random order, takes the shutdown
\* arm in the end.
FairInit == Init /\ msgs \in HandledNotifications

FairSpec ==
    /\ FairInit
    /\ [][Next]_vars
    /\ WF_vars(LoopStep)
    /\ SF_vars(ShutdownObserved)

\* C1: a message whose handling hit a body parse failure, a WrongRegion
\* record, a GetObject failure or a ReadObject failure, or which has no
\* receipt handle, has no delete called for it in that poll, whatever
\* delete_message is.
C1_FailedMessageNotDeleted ==
    \A m \in MsgIds : outcome[m] \in Failures => DeletesOf(m) = {}

\* C1 witness: with delete_message set, a poll is over in which one message
\* failed and another one was deleted.
C1_Witness ==
    /\ delete_message
    /\ BatchDone
    /\ \E m \in MsgIds : outcome[m] \in Failures \ {"NoReceiptHandle"}
    /\ deletes # <<>>

\* C2 (as stated): when the pipeline rejects the records of an object of a
\* message, delete is not called for that message.
C2_SinkFailureNotDeleted ==
    \A m \in sinkFailed : DeletesOf(m) = {}

\* C3: for a message with a receipt handle whose handling returned Ok, with
\* delete_message set, delete is called exactly once in the poll, with the
\* message's own receipt handle, and no GetObject or forward of the message
\* follows its delete.
C3_DeleteOnceAfterForwards ==
    /\ \A m \in MsgIds :
          outcome[m] = "Ok" /\ delete_message =>
             /\ Cardinality(DeletesOf(m)) = 1
             /\ \A i \in DeletesOf(m) : deletes[i].receipt_handle = HandleOf(m)
    /\ Handling => DeletesOf(message) = {}
    /\ \A m \in last.msg :
          last.op \in {"forward", "get_object"} => DeletesOf(m) = {}

\* C3 witness: every line of an object was accepted by the pipeline and,
\* after that, delete was called for the message, the second of its batch.
C3_Witness ==
    /\ pc = "Delete"
    /\ last.op = "delete"
    /\ message \notin sinkFailed
    /\ Len(deletes) = 2
    /\ \E i \in 1..Len(Records(message)) :
          RecordCheck(Records(message)[i]) = "GetObject"

\* C4: with delete_message not set delete is never called, whatever the
\* outcome of a message, and every message stays on the queue.
C4_NeverDeletesWhenOff ==
    ~delete_message => deletes = <<>> /\ pc # "Delete" /\ queue = MsgIds

\* C4 witness: delete_message is off and a message was handled with success.
C4_Witness ==
    /\ ~delete_message
    /\ \E m \in MsgIds : outcome[m] = "Ok" /\ Records(m) # <<>>

\* C5 (as stated, its safety part): a message for which forwarding to the
\* pipeline failed, or a read error was recorded, is still on the queue.
C5_FailedMessageStaysQueued ==
    \A m \in MsgIds :
        (m \in sinkFailed \/ outcome[m] = "ReadObject") => m \in queue

\* C6 (as stated): a failed delete call does not crash the loop.
C6_DeleteFailureNeverCrashes == pc # "Panicked"

\* C7: a failed receive is an empty batch; a message that fails (no receipt
\* handle, InvalidSqsMessage, WrongRegion, GetObject, ReadObject) leaves the
\* loop at the next message of the batch; after the batch the loop waits for
\* the next tick; run returns only when the shutdown signal was raised, and
\* none of these errors panics it.
C7_ErrorsAreLocal ==
    /\ [](received = "Err" => BatchDone)
    /\ [](result # "Running" => shutdown)
    /\ [][/\ pc = "Polling" => pc' \in {"Polling", "Messages"}
          /\ \A m \in MsgIds :
                outcome[m] = "none" /\ outcome'[m] \in Failures =>
                   pc' = "Messages" /\ messages' = Tail(messages)
          /\ BatchDone => pc' \in {"Messages", "Idle"}
          /\ pc' \in {"Stopped", "Panicked"} => pc \in {"Idle", "Delete", pc'}]_vars

\* C7 witness: a message of the batch failed and the next one was handled
\* with success.
C7_Witness ==
    \E m \in MsgIds, n \in MsgIds :
        m < n /\ outcome[m] \in Failures /\ outcome[n] = "Ok"

\* C7 witness, second case: a receive failed.
C7_WitnessReceive == received = "Err"

C10_StoppedIsTerminal ==
    /\ [](pc = "Stopped" <=> result = "Ok")
    /\ [](result \in {"Running", "Ok"})
    /\ [][pc = "Stopped" => UNCHANGED vars]_vars

\* C10 witness: run has returned Ok after a poll that deleted a message.
C10_Witness == pc = "Stopped" /\ result = "Ok" /\ queue # MsgIds

\* ------------------------------------------------- properties, continued

\* The payloads of the events the pipeline accepted from the current object.
Payloads == [i \in 1..Len(sent) |-> sent[i].message]

\* The bytes of the payloads, each followed by the delimiter.
RECURSIVE Unsplit(_)
Unsplit(ps) ==
    IF ps = <<>> THEN <<>> ELSE Head(ps) \o <<"\n">> \o Unsplit(Tail(ps))

\* The content with its last line ended by the delimiter.
Terminated(content) ==
    IF content = <<>> \/ content[Len(content)] = "\n" THEN content
    ELSE content \o <<"\n">>

IsPrefix(s, t) == Len(s) <= Len(t) /\ s = SubSeq(t, 1, Len(s))

\* C11: while an object is forwarded, with no multiline aggregation, the
\* payloads forwarded so far hold no '\n' and are, each with a '\n' after
\* it, the beginning of the object's content; once the stream has ended
\* without a read error they are all of it: the content split on '\n', in
\* file order, nothing dropped, duplicated or reordered.
C11_ForwardedEqualsLines ==
    pc = "Send" =>
        /\ \A i \in 1..Len(sent) : "\n" \notin Range(Payloads[i])
        /\ IsPrefix(Unsplit(Payloads), Terminated(store.body))
        /\ (read_error = None /\ lines = <<>>) =>
               Unsplit(Payloads) = Terminated(store.body)

\* C11 witness: the object "b\na", whose last line has no '\n', was read to
\* its end and its two lines were forwarded.
C11_Witness ==
    /\ pc = "Send"
    /\ read_error = None
    /\ lines = <<>>
    /\ store.body = <<"b", "\n", "a">>
    /\ Payloads = <<<<"b">>, <<"a">>>>

\* C12: within a batch the for loop is at the head of what is left of it:
\* the messages after it have no result, no GetObject, no forward and no
\* delete; the loop leaves a message only by dropping it from the head, with
\* its result decided and, when the result asks for it, its delete issued;
\* and the records of a message are taken one by one in their listed order.
C12_InOrder ==
    /\ [](Handling \/ pc = "Delete" =>
            /\ \A n \in Range(Tail(messages)) :
                  /\ outcome[n] = "none"
                  /\ DeletesOf(n) = {}
                  /\ last.msg # {n}
            /\ \A i \in 1..Len(deletes) : deletes[i].msg \notin Range(Tail(messages)))
    /\ [][/\ pc # "Polling" /\ messages' # messages =>
               /\ messages' = Tail(messages)
               /\ outcome'[Head(messages)] # "none"
               /\ (outcome'[Head(messages)] = "Ok" /\ delete_message =>
                      \E i \in 1..Len(deletes) : deletes[i].msg = Head(messages))
          /\ last' # last /\ last'.op \in {"handle_sqs_message", "get_object",
                                           "forward", "delete"} =>
               last'.msg = {Head(messages)}
          /\ ri' # ri => ri' \in {0, ri + 1}
          /\ ri' = ri + 1 /\ ri > 0 => messages' = messages]_vars

\* C12 witness: the first message of the batch has its result and a line of
\* the object of the second one is forwarded.
C12_Witness ==
    /\ pc = "Send"
    /\ last.op = "forward"
    /\ last.msg = {2}
    /\ outcome[1] = "Ok"
    /\ Records(1) # <<>>
    /\ RecordCheck(Records(1)[1]) = "GetObject"

\* The rules of determine_compression as a table.
ByEncoding(ce) ==
    IF ce = Some("gzip") THEN Some("Gzip")
    ELSE IF ce = Some("zstd") THEN Some("Zstd") ELSE None

ByType(ct) ==
    IF ct \in {Some("application/gzip"), Some("application/x-gzip")} THEN Some("Gzip")
    ELSE IF ct = Some("application/zstd") THEN Some("Zstd") ELSE None

ByKey(key) ==
    IF Extension(key) = Some(<<"gz">>) THEN Some("Gzip")
    ELSE IF Extension(key) = Some(<<"zst">>) THEN Some("Zstd") ELSE None

\* C13: what determine_compression returned for the object being decoded is
\* the first present one of: the content-encoding rule, the content-type
\* rule, the key-extension rule; it is absent when none of them is present,
\* and it is never Auto or None.
C13_FirstPresentRule ==
    pc = "Send" /\ decoder.determined # None =>
        LET key == Records(message)[ri].key
            expected ==
                IF ByEncoding(store.content_encoding) # None
                THEN ByEncoding(store.content_encoding)
                ELSE IF ByType(store.content_type) # None
                THEN ByType(store.content_type)
                ELSE ByKey(key)
        IN  /\ decoder.determined = Some(expected)
            /\ decoder.determined[1] \in {None, Some("Gzip"), Some("Zstd")}

\* C13 witness: a content-encoding and a content-type that are not
\* recognised fell through to the extension of the key.
C13_Witness ==
    /\ pc = "Send"
    /\ store.content_encoding = Some("identity")
    /\ store.content_type = Some("text/plain")
    /\ Records(message)[ri].key = <<"out", ".", "log", ".", "gz">>
    /\ decoder.determined = Some(Some("Gzip"))

\* The eventName is kind:name with a kind and a name that are not empty and
\* hold no ':'.
WellFormed(s) ==
    /\ Cardinality({i \in 1..Len(s) : s[i] = ":"}) = 1
    /\ s # <<>>
    /\ s[1] # ":"
    /\ s[Len(s)] # ":"

\* C14 (as stated): an eventName kind:name, both parts not empty and without
\* ':', deserialized and serialized again is the same string.
C14_RoundTrip ==
    pc = "Serialized" /\ WellFormed(eventName) => serialized = eventName

\* C15 (as stated): an eventName is deserialized with success only when it
\* has exactly one ':' and text on both sides of it.
C15_OnlyWellFormedAccepted ==
    event_name.ok => WellFormed(eventName)

\* C15 (amended): an eventName is rejected exactly when it holds no ':'; the
\* rejection is the InvalidSqsMessage of the message, which is then not
\* deleted; an accepted one has as kind what is before its first ':' and as
\* name all that follows, either of which may be empty and the name may hold
\* further ':'.
C15_RejectedIffNoColon ==
    pc # "FromStr" =>
        /\ event_name.ok <=> ":" \in Range(eventName)
        /\ event_name.ok =>
              /\ eventName = event_name.kind \o <<":">> \o event_name.name
              /\ ":" \notin Range(event_name.kind)
        /\ ~event_name.ok =>
              /\ pc = "Rejected"
              /\ error.kind = "InvalidSqsMessage"
              /\ ~ShouldDelete(error.kind)

\* C15 witness: ":Put:Put", with an empty kind and a second ':', was
\* accepted.
C15_Witness ==
    /\ eventName = <<":", "Put", ":">>
    /\ event_name.ok
    /\ event_name.kind = <<>>
    /\ event_name.name = <<"Put", ":">>

\* C15 witness, second case: an eventName without ':' was rejected.
C15_WitnessRejected ==
    /\ eventName = <<"ObjectCreated", "Put">>
    /\ pc = "Rejected"

\* The record the loop is at.
record == Records(message)[ri]

\* C16: a record whose kind is not ObjectCreated is passed over, whatever
\* its region: no GetObject and no forward is ever in progress for such a
\* record, the step over it leaves the result of the message, the last
\* error and the last request as they are, and a message made of such
\* records only has the result Ok and, with delete_message set, is deleted.
C16_OtherKindsSkipped ==
    /\ [](pc \in {"GetObject", "Send"} => record.kind = "ObjectCreated")
    /\ [](\A m \in MsgIds :
            /\ outcome[m] \notin {"none", "NoReceiptHandle"}
            /\ ParseBody(msgs[m].body).ok
            /\ \A r \in Range(Records(m)) : r.kind # "ObjectCreated"
            => /\ outcome[m] = "Ok"
               /\ delete_message => DeletesOf(m) # {})
    /\ [][pc = "Records" /\ ri <= Len(Records(message))
              /\ record.kind # "ObjectCreated" =>
            /\ pc' = "Records"
            /\ ri' \in {ri, ri + 1}
            /\ UNCHANGED <<messages, outcome, error, last, deletes, sent>>]_vars

\* C16 witness: a message of an ObjectRemoved record of a foreign region was
\* deleted.
C16_Witness ==
    \E m \in MsgIds :
        /\ Records(m) # <<>>
        /\ \A r \in Range(Records(m)) :
              r.kind = "ObjectRemoved" /\ r.aws_region # OwnRegion
        /\ outcome[m] = "Ok"
        /\ DeletesOf(m) # {}

UserMetadata == IF store.metadata = None THEN <<>> ELSE store.metadata[1]

\* C18 (as stated): every forwarded event has the fields bucket, object and
\* region with the values of the record, its region being the region of the
\* ingestor, and every key-value pair of the user metadata, whatever the
\* keys of the metadata are.
C18_FieldsOfTheRecord ==
    pc = "Send" =>
        \A i \in 1..Len(sent) :
            LET fields == sent[i].fields IN
            /\ {"bucket", "object", "region"} \subseteq DOMAIN fields
            /\ fields["bucket"] = record.bucket
            /\ fields["object"] = record.key
            /\ fields["region"] = record.aws_region
            /\ fields["region"] = OwnRegion
            /\ \A k \in DOMAIN UserMetadata : fields[k] = UserMetadata[k]

\* C18 (amended): every forwarded event has exactly the fields bucket,
\* object and region and the keys of the user metadata; every key of the
\* user metadata has the metadata's value, and bucket, object and region
\* have the values of the record (region being the region of the ingestor)
\* unless the user metadata has a key of that name.
C18_MetadataOverwrites ==
    pc = "Send" =>
        \A i \in 1..Len(sent) :
            LET fields == sent[i].fields
                own == [k \in {"bucket", "object", "region"} |->
                          CASE k = "bucket" -> record.bucket
                            [] k = "object" -> record.key
                            [] k = "region" -> record.aws_region]
            IN
            /\ DOMAIN fields = {"bucket", "object", "region"} \cup DOMAIN UserMetadata
            /\ \A k \in DOMAIN UserMetadata : fields[k] = UserMetadata[k]
            /\ \A k \in DOMAIN own \ DOMAIN UserMetadata : fields[k] = own[k]
            /\ record.aws_region = OwnRegion

\* C18 witness: an event of an object whose user metadata has the key bucket
\* was forwarded, with the metadata's value as its bucket.
C18_Witness ==
    /\ pc = "Send"
    /\ sent # <<>>
    /\ store.metadata = Some("bucket" :> "spoofed")
    /\ sent[1].fields["bucket"] = "spoofed"
    /\ record.bucket = "audit"

\* u > v for two u64.
Gt(u, v) ==
    \E i \in 1..4 : u[i] > v[i] /\ \A j \in 1..(i - 1) : u[j] = v[j]

\* GetQueueUrl answered with a queue URL.
UrlResolved ==
    sqs_config.get_queue_url.ok /\ sqs_config.get_queue_url.queue_url # None

\* C19: a visibility_timeout_secs above 2^63 - 1 makes new fail, with
\* InvalidVisibilityTimeout once the queue URL is resolved; with a value
\* that fits new does not fail with that error and the ingestor it builds
\* has exactly that value; and the visibility timeout of every receive
\* request is not negative.
C19_VisibilityTimeoutFits ==
    /\ pc # "New" =>
          LET v == sqs_config.visibility_timeout_secs IN
          /\ Gt(v, I64Max) =>
                /\ ingestor.result \notin {"Ok", "none"}
                /\ UrlResolved => ingestor.result = "InvalidVisibilityTimeout"
          /\ ~Gt(v, I64Max) =>
                /\ ingestor.result # "InvalidVisibilityTimeout"
                /\ UrlResolved => /\ ingestor.result = "Ok"
                                  /\ ingestor.visibility_timeout_secs = v
    /\ last.op = "receive" =>
          /\ ingestor.result = "Ok"
          /\ ~IsNegative(ReceiveMessageRequest.visibility_timeout)
          /\ ReceiveMessageRequest.visibility_timeout =
                sqs_config.visibility_timeout_secs

\* C19 witness: a receive was issued by an ingestor built with 2^63 - 1.
C19_Witness ==
    /\ pc = "Polling"
    /\ last.op = "receive"
    /\ ReceiveMessageRequest.visibility_timeout = I64Max

\* C19 witness, second case: new failed on 2^63.
C19_WitnessTooLarge ==
    /\ pc = "Failed"
    /\ sqs_config.visibility_timeout_secs = U64(SignBit, 0, 0, 0)
    /\ ingestor.result = "InvalidVisibilityTimeout"

\* C20 (as stated): new fails with FetchQueueUrl when GetQueueUrl fails and
\* with MissingQueueUrl when the answer has no queue URL or an empty one, so
\* that an ingestor that polls has a queue_url that is not empty.
C20_QueueUrlNotEmpty ==
    /\ pc # "New" =>
          /\ ~sqs_config.get_queue_url.ok => ingestor.result = "FetchQueueUrl"
          /\ /\ sqs_config.get_queue_url.ok
             /\ sqs_config.get_queue_url.queue_url \in {None, Some("")}
             => ingestor.result = "MissingQueueUrl"
    /\ pc \notin {"New", "Failed"} => ingestor.queue_url # ""

C21_WitnessPolling ==
    /\ sqs_config.poll_secs = 1
    /\ pc = "Polling"
    /\ last.op = "receive"

\* The multiline configuration of s3_process_message_multiline.
ContinueThroughAbcDef ==
    [start_pattern |-> "abc", condition_pattern |-> "def", mode |-> "ContinueThrough"]

\* C22 (as stated): with ContinueThrough, start_pattern abc and
\* condition_pattern def, the object abc / def / geh, read to its end with
\* no read error and no timeout of the aggregator, is forwarded as exactly
\* one event whose message is "abc\ndef\ngeh".
C22_ContinueThroughOneRecord ==
    /\ pc = "Send"
    /\ multiline = Some(ContinueThroughAbcDef)
    /\ store.body = <<"abc", "\n", "def", "\n", "geh">>
    /\ read_error = None
    /\ lines = <<>>
    /\ buffer = None
    /\ ~timedOut
    => Payloads = << <<"abc", "\n", "def", "\n", "geh">> >>

\* C23: for every Not of the expression, with inner what its expression
\* executed to and outer what the Not returned: a Boolean(b) gives
\* Boolean(not b); a value of another kind gives the error Expected(Boolean,
\* kind of the value); an error is passed on as it is; no value gives no
\* value; and two Nots around a Boolean give the Boolean back.
C23_NotExecute ==
    /\ \A i \in 2..Len(executed) :
          LET inner == executed[i - 1]
              outer == executed[i]
          IN  /\ ~inner.ok => outer = inner
              /\ inner.ok /\ inner.value = None =>
                    outer.ok /\ outer.value = None
              /\ inner.ok /\ inner.value # None =>
                    LET v == inner.value[1] IN
                    IF Kind(v) = "Boolean"
                    THEN /\ outer.ok
                         /\ outer.value # None
                         /\ Kind(outer.value[1]) = "Boolean"
                         /\ outer.value[1][2] = ~v[2]
                    ELSE /\ ~outer.ok
                         /\ outer.error = <<"Expected", "Boolean", Kind(v)>>
    /\ \A i \in 3..Len(executed) :
          /\ executed[i - 2].ok
          /\ executed[i - 2].value # None
          /\ Kind(executed[i - 2].value[1]) = "Boolean"
          => executed[i] = executed[i - 2]

\* C23 witness: two Nots around the literal true were executed, to false
\* and then to true.
C23_Witness ==
    /\ Len(executed) >= 3
    /\ executed[1] = Ok(Some(Boolean(TRUE)))
    /\ executed[2] = Ok(Some(Boolean(FALSE)))
    /\ executed[3] = Ok(Some(Boolean(TRUE)))

\* C23 witness, second case: Not of the string "not a bool" is an error.
\* (tests::not)
C23_WitnessNotBoolean ==
    /\ Len(executed) >= 2
    /\ executed[1] = Ok(Some(Value("String", "not a bool")))
    /\ ~executed[2].ok

\* What the rules of determine_compression give for the object being
\* decoded.
Detected ==
    IF ByEncoding(store.content_encoding) # None
    THEN ByEncoding(store.content_encoding)
    ELSE IF ByType(store.content_type) # None
    THEN ByType(store.content_type)
    ELSE ByKey(record.key)

\* C24: the compression an object is decoded with is None, Gzip or Zstd,
\* never Auto; a configured None, Gzip or Zstd is used as it is, whatever
\* the key, the content-encoding and the content-type, and the detector is
\* not asked; with Auto configured it is what the detector found, and None
\* when the detector found nothing.
C24_DecodedNeverAuto ==
    pc = "Send" =>
        /\ decoder.compression \in {"None", "Gzip", "Zstd"}
        /\ compression # "Auto" =>
              /\ decoder.compression = compression
              /\ decoder.determined = None
        /\ compression = "Auto" =>
              /\ decoder.determined = Some(Detected)
              /\ decoder.compression =
                    IF Detected = None THEN "None" ELSE Detected[1]

\* C24 witness: with Auto configured nothing was detected for out.log, and
\* the object is decoded as plain.
C24_Witness ==
    /\ pc = "Send"
    /\ compression = "Auto"
    /\ record.key = DefaultKey
    /\ store.content_encoding = Some("identity")
    /\ store.content_type = Some("text/plain")
    /\ decoder.compression = "None"

\* C24 witness, second case: with None configured, an object that is gzip
\* by its key, content-encoding and content-type is decoded as plain.
C24_WitnessConfigured ==
    /\ pc = "Send"
    /\ compression = "None"
    /\ record.key = <<"out", ".", "log", ".", "gz">>
    /\ store.content_encoding = Some("gzip")
    /\ store.content_type = Some("application/gzip")
    /\ decoder.compression = "None"

\* All the lines of the object in S3.
ObjectLines == BytesDelimited(store.body)

\* C25: while an object is streamed, what was forwarded is the first li of
\* its lines, in file order; once a read error is recorded nothing more of
\* the object is forwarded, and the only thing that follows is the return of
\* send_all, which decides the result: ReadObject, with the text of the read
\* error and the bucket and the key of the record, and no delete.
C25_ReadErrorEndsObject ==
    /\ [](pc = "Send" =>
            /\ li <= Len(ObjectLines)
            /\ Payloads = SubSeq(ObjectLines, 1, li)
            /\ lines = SubSeq(ObjectLines, li + 1, Len(ObjectLines)))
    /\ [](read_error # None => pc = "Send" /\ read_error = Some(store.io_error))
    /\ [](\A m \in MsgIds :
            outcome[m] = "ReadObject" =>
               /\ error.kind = "ReadObject"
               /\ DeletesOf(m) = {}
               /\ m \in queue)
    /\ [][read_error # None =>
            \/ pc' = "Send" /\ UNCHANGED <<sent, li, lines, delivered, last,
                                           outcome, error, read_error>>
            \/ /\ pc' = "Messages"
               /\ outcome' = [outcome EXCEPT ![message] = "ReadObject"]
               /\ error' = [kind |-> "ReadObject", bucket |-> record.bucket,
                            key |-> record.key, region |-> "",
                            error |-> read_error[1]]
               /\ UNCHANGED <<delivered, last, deletes, queue>>]_vars
    /\ [][(\E m \in MsgIds : outcome[m] # "ReadObject" /\ outcome'[m] = "ReadObject")
            => pc = "Send" /\ read_error # None]_vars

\* C25 witness: the read of a three-byte object failed after a line was
\* forwarded, and the message ended with ReadObject and the text of the
\* error.
C25_Witness ==
    /\ pc = "Messages"
    /\ outcome[1] = "ReadObject"
    /\ delivered
    /\ Len(store.body) = MaxBytes
    /\ error = [kind |-> "ReadObject", bucket |-> DefaultBucket, key |-> DefaultKey,
                region |-> "", error |-> "corrupt deflate stream"]

\* C26: for a message without a receipt handle nothing is ever issued, no
\* handle_sqs_message (its body is not parsed), no get_object, no forward
\* and no delete, and run is never inside its handling; its turn in the for
\* loop only drops it from the batch, with the loop still at the head of the
\* for, so that the messages after it are handled.
C26_NoReceiptHandleSkipped ==
    /\ [](\A m \in MsgIds :
            ~msgs[m].receipt_handle =>
               /\ outcome[m] \in {"none", "NoReceiptHandle"}
               /\ last.msg # {m}
               /\ DeletesOf(m) = {}
               /\ m \in queue
               /\ ~(Handling /\ message = m)
               /\ ~(pc = "Delete" /\ message = m))
    /\ [][pc = "Messages" /\ messages # <<>> /\ ~msgs[message].receipt_handle =>
            /\ pc' = "Messages"
            /\ UNCHANGED <<last, sent, deletes, queue, error, ri>>
            /\ \/ UNCHANGED <<messages, outcome>>
               \/ /\ messages' = Tail(messages)
                  /\ outcome' = [outcome EXCEPT ![message] = "NoReceiptHandle"]]_vars

\* C26 witness: of a batch of two the first message had no receipt handle
\* and was skipped, and the second one was handled and deleted.
C26_Witness ==
    /\ BatchDone
    /\ ~msgs[1].receipt_handle
    /\ outcome[1] = "NoReceiptHandle"
    /\ outcome[2] = "Ok"
    /\ DeletesOf(2) # {}
    /\ received = "Ok"

\* get_object answers with an object that has no body: the notification
\* record is over and the for loop of handle_s3_event goes to the next one,
\* with nothing forwarded, no error and nothing decided about the message.
NoBodyStep ==
    /\ GetObject
    /\ pc' = "Records"
    /\ ri' = ri + 1
    /\ UNCHANGED <<sent, outcome, error, deletes, messages, delivered, last,
                   sinkFailed, queue>>

\* C27: whenever the answer of GetObject is awaited, an answer without a
\* body is a step that only moves on to the next notification record, with
\* nothing forwarded and no error; every step from GetObject to the next
\* record is such a step; and when the records of a message have run out
\* the message is a success, which is deleted when delete_message is set.
C27_NoBodyIsSuccess ==
    /\ [](pc = "GetObject" => ENABLED NoBodyStep)
    /\ [][pc = "GetObject" /\ pc' = "Records" =>
            /\ ri' = ri + 1
            /\ UNCHANGED <<sent, outcome, error, deletes, messages, delivered,
                           last, sinkFailed, queue>>]_vars
    /\ [][pc = "Records" /\ ri > Len(Records(message)) /\ pc' # "Records" =>
            /\ outcome' = [outcome EXCEPT ![message] = "Ok"]
            /\ pc' = IF delete_message THEN "Delete" ELSE "Messages"
            /\ delete_message => last' = Issued("delete", {message})]_vars

\* C27 witness: the only record of a message was fetched, the object had no
\* body, nothing was forwarded, and the delete of the message is under way.
C27_Witness ==
    /\ pc = "Delete"
    /\ Len(Records(message)) = 1
    /\ RecordCheck(Records(message)[1]) = "GetObject"
    /\ outcome[message] = "Ok"
    /\ ~delivered
    /\ message \notin sinkFailed
    /\ DeletesOf(message) # {}

\* The positions of run inside its for loop over a batch.
Processing == {"Messages", "Records", "GetObject", "Send", "Delete"}

\* C28: run goes from Idle to Polling by a tick, from Polling to the for
\* loop over the batch, and back to Idle only from the head of the for loop
\* with the batch used up. While run is Idle or Polling no message is in
\* hand; while one message is handled nothing was issued or decided for the
\* messages after it. A receive is issued by exactly the step from Idle to
\* Polling, one per tick, and its request asks for at most 10 messages with
\* the visibility timeout of the configuration; a batch has no more
\* messages than were asked for.
C28_LoopShape ==
    /\ [](pc \in {"Idle", "Polling"} =>
            /\ messages = <<>>
            /\ ri = 0
            /\ lines = <<>>
            /\ sent = <<>>
            /\ deletes = <<>>)
    /\ [](pc = "Polling" => last = Issued("receive", {}) \/ shutdown)
    /\ [](pc = "Polling" => last.op = "receive")
    /\ [](pc \in Processing =>
            /\ Len(messages) <= ReceiveMessageRequest.max_number_of_messages
            /\ \A i \in 2..Len(messages) :
                  /\ outcome[messages[i]] = "none"
                  /\ last.msg # {messages[i]}
                  /\ messages[i] # messages[1])
    /\ [](last.op = "receive" =>
            /\ ReceiveMessageRequest.max_number_of_messages <= 10
            /\ ReceiveMessageRequest.queue_url = TheQueueUrl
            /\ ReceiveMessageRequest.visibility_timeout =
                  sqs_config.visibility_timeout_secs)
    /\ [][/\ pc = "Idle" => pc' \in {"Idle", "Polling", "Stopped"}
          /\ pc = "Polling" => pc' \in {"Polling", "Messages"}
          /\ pc \in Processing => pc' \in Processing \cup {"Idle", "Panicked"}
          /\ pc' = "Polling" => pc \in {"Idle", "Polling"}
          /\ pc' = "Idle" /\ pc # "Idle" => pc = "Messages" /\ messages = <<>>
          /\ (pc = "Idle" /\ pc' = "Polling")
                <=> (last' # last /\ last'.op = "receive")]_vars

\* C28 witness: a second receive is in flight, after a poll that deleted a
\* message.
C28_Witness ==
    /\ pc = "Polling"
    /\ last.op = "receive"
    /\ queue # MsgIds
    /\ ReceiveMessageRequest.max_number_of_messages = 10

\* The failures of a notification record.
RecordFailures == {"WrongRegion", "GetObject", "ReadObject"}

\* C29: the step in which a notification record of the message in hand
\* fails ends the handling of the message: the error is the one of that
\* record, the for loop of run is at its head with the message dropped from
\* the batch, no delete is made, and what the pipeline accepted for earlier
\* records stays accepted. From then on the message is not in hand again in
\* that poll and nothing is issued for it: no get_object and no forward for
\* its later records.
C29_FirstFailureEndsMessage ==
    /\ [][\A m \in MsgIds :
            outcome[m] \notin RecordFailures /\ outcome'[m] \in RecordFailures =>
               /\ m = message
               /\ outcome[m] = "none"
               /\ Handling
               /\ ri \in 1..Len(Records(m))
               /\ \A j \in 1..(ri - 1) :
                     RecordCheck(Records(m)[j]) # "WrongRegion"
               /\ error'.kind = outcome'[m]
               /\ error'.bucket = Records(m)[ri].bucket
               /\ error'.key = Records(m)[ri].key
               /\ pc' = "Messages"
               /\ messages' = Tail(messages)
               /\ ri' = 0
               /\ UNCHANGED <<delivered, deletes, queue, last>>]_vars
    /\ [](\A m \in MsgIds :
            outcome[m] \in RecordFailures =>
               /\ m \notin Range(messages)
               /\ DeletesOf(m) = {}
               /\ m \in queue)
    /\ [][\A m \in MsgIds :
            outcome[m] \in RecordFailures /\ outcome'[m] \in RecordFailures =>
               last' = last \/ last'.msg # {m}]_vars

\* C29 witness: the first record of a message of two records was fetched
\* and forwarded, the second one failed, and the message is over.
C29_Witness ==
    /\ pc = "Messages"
    /\ \E m \in MsgIds :
          /\ Len(Records(m)) = 2
          /\ Records(m)[1] = Fetchable
          /\ Records(m)[2].aws_region # OwnRegion
          /\ outcome[m] = "WrongRegion"
          /\ error.region = Records(m)[2].aws_region
          /\ delivered
          /\ last.op = "forward"
          /\ last.msg = {m}

\* C29 witness, second case: the first record of a message of two records
\* failed with the second one never looked at.
C29_WitnessFirstFails ==
    /\ pc = "Messages"
    /\ \E m \in MsgIds :
          /\ Len(Records(m)) = 2
          /\ outcome[m] = "WrongRegion"
          /\ RecordCheck(Records(m)[1]) = "WrongRegion"
          /\ RecordCheck(Records(m)[2]) = "GetObject"
          /\ last.op = "handle_sqs_message"
          /\ last.msg = {m}
          /\ ~delivered

\* The body of message m is the JSON of an S3Event whose Records is empty.
NoRecords(m) == msgs[m].body.text = "S3Event" /\ msgs[m].body.Records = <<>>

\* The body of message m is missing or is the empty string.
NoBodyText(m) == msgs[m].body.text \in {"absent", ""}

\* C30: a message with a receipt handle whose body is an S3Event with an
\* empty Records list never has a get_object or a forward issued for it
\* and never fails; the step that ends its handling makes it a success and
\* calls delete for it exactly when delete_message is set. A message with
\* a receipt handle whose body is missing or empty is never handled past
\* the parse of its body: its turn in the for loop makes it an
\* InvalidSqsMessage, and no delete is ever called for it.
C30_EmptyRecordsAndEmptyBody ==
    /\ [](\A m \in MsgIds :
            msgs[m].receipt_handle /\ NoRecords(m) =>
               /\ outcome[m] \in {"none", "Ok"}
               /\ last.msg = {m} => last.op \in {"handle_sqs_message", "delete"}
               /\ messages # <<>> /\ message = m =>
                     /\ pc \in {"Messages", "Records", "Delete"}
                     /\ sent = <<>>
                     /\ ~delivered
               /\ outcome[m] = "Ok" => (DeletesOf(m) # {} <=> delete_message))
    /\ [][pc = "Records" /\ NoRecords(message) /\ pc' # "Records" =>
            /\ outcome' = [outcome EXCEPT ![message] = "Ok"]
            /\ pc' = IF delete_message THEN "Delete" ELSE "Messages"
            /\ deletes' = IF delete_message
                          THEN Append(deletes, [msg |-> message,
                                                receipt_handle |-> HandleOf(message)])
                          ELSE deletes]_vars
    /\ [](\A m \in MsgIds :
            msgs[m].receipt_handle /\ NoBodyText(m) =>
               /\ outcome[m] \in {"none", "InvalidSqsMessage"}
               /\ outcome[m] = "InvalidSqsMessage" => error.kind = "InvalidSqsMessage"
               /\ DeletesOf(m) = {}
               /\ m \in queue
               /\ messages # <<>> /\ message = m => pc = "Messages")
    /\ [][/\ pc = "Messages"
          /\ messages # <<>>
          /\ msgs[message].receipt_handle
          /\ NoBodyText(message)
          /\ messages' # messages
          => /\ pc' = "Messages"
             /\ messages' = Tail(messages)
             /\ outcome' = [outcome EXCEPT ![message] = "InvalidSqsMessage"]
             /\ last' = Issued("handle_sqs_message", {message})
             /\ UNCHANGED <<deletes, queue, sent>>]_vars

\* C30 witness: with delete_message set, the message whose Records is empty
\* was deleted from the queue.
C30_Witness ==
    /\ delete_message
    /\ msgs[1].receipt_handle
    /\ NoRecords(1)
    /\ outcome[1] = "Ok"
    /\ DeletesOf(1) # {}
    /\ 1 \notin queue

\* C30 witness, second case: with delete_message set, the poll is over and
\* the message whose body is the empty string was an InvalidSqsMessage.
C30_WitnessEmptyBody ==
    /\ delete_message
    /\ BatchDone
    /\ msgs[1].body = EmptyBody
    /\ outcome[1] = "InvalidSqsMessage"
    /\ deletes = <<>>

\* C30 witness, third case: the same with the body missing.
C30_WitnessNoBody ==
    /\ delete_message
    /\ BatchDone
    /\ msgs[1].body.text = "absent"
    /\ outcome[1] = "InvalidSqsMessage"
    /\ deletes = <<>>

====
